---- MODULE Spec2Model ----
(***************************************************************************)
(* Model of the QC metrics core of SeismicPro:                             *)
(*   seismicpro/src/seismic_metrics.py  MetricsMap (construction, grid)    *)
(*   seismicpro/qc/utils.py             update_avo_params, avo_plot,       *)
(*                                      std_plot                           *)
(*                                                                         *)
(* Numbers.  A floating point value is a pair <<n, d>>: d > 0 is the       *)
(* rational n/d in lowest terms, <<0, 0>> is not-a-number, <<1, 0>> is     *)
(* +infinity and <<-1, 0>> is -infinity.  Rounding is not modelled; the    *)
(* inputs are small integers, for which the arithmetic of the code is      *)
(* exact.  Python's None is the empty sequence where a matrix is meant.    *)
(***************************************************************************)
EXTENDS Integers, Sequences, FiniteSets, TLC

VARIABLES
    arg_coords,    \* MetricsMap.__init__: the coords argument
    arg_metrics,   \* MetricsMap.__init__: the metrics argument
    self_map,      \* the MetricsMap object: [built, metrics, coords, maps_list]
    grid_in,       \* construct_metrics_map: [coords_x, coords_y, metrics, bin_size]
    metrics_map,   \* construct_metrics_map: [status, map]
    cfg,           \* update_avo_params: the arguments the pipeline fixes for a run
    params,        \* update_avo_params: the caller's storage (OffsetBinMatrix)
    params_in,     \* the storage passed to the last update_avo_params call
    last_batch,    \* the gathers of the batch of the last update_avo_params call
    processed,     \* the gathers of the calls that returned, in processing order
    status,        \* outcome of the last update_avo_params call
    plot_in,       \* avo_plot / std_plot: the arguments of the last call
    plot_out,      \* avo_plot / std_plot: what the last call computed
    maps,          \* MetricsMap.append: the _maps_list of each MetricsMap object
    last_append,   \* MetricsMap.append: the last call and the lists before it
    cells_done,    \* construct_metrics_map: the cells whose loop iteration has run
    hz_file,       \* load_horizon: the lines of the file
    hz_out,        \* load_horizon: [status, horizon_val]
    pool,          \* metric calculators: [calc, gathers, pos] of the batch
    dst,           \* metric calculators: the dst component(s) of the batch
    task           \* metric calculators: each index's task, [pc, local]

vars == <<arg_coords, arg_metrics, self_map, grid_in, metrics_map,
          cfg, params, params_in, last_batch, processed, status, plot_in, plot_out,
          maps, last_append, cells_done, hz_file, hz_out, pool, dst, task>>

mapVars  == <<arg_coords, arg_metrics, self_map>>
gridVars == <<grid_in, metrics_map>>
avoVars  == <<cfg, params, params_in, last_batch, processed, status>>
plotVars == <<plot_in, plot_out>>
appendVars == <<maps, last_append>>
cellVars == <<cells_done>>
hzVars   == <<hz_file, hz_out>>
poolVars == <<pool, dst, task>>

----------------------------------------------------------------------------
(* Bounds of the model *)

MaxLen == 3          \* longest coords / metrics argument of MetricsMap
MaxCoord == 1        \* coordinates are 0..MaxCoord on both axes
MaxSamples == 3      \* most samples handed to construct_metrics_map
MaxBinSize == 2      \* bin sizes are 1..MaxBinSize

MaxTraces == 2       \* most traces of a gather
MaxOffset == 2       \* offsets are 0..MaxOffset
NSamples == 2        \* samples per trace, len(batch.meta[component]['samples'])
TStep == 2           \* sample interval, np.diff(samples[:2])[0]
StorageSize == 2     \* storage_size of a run
MaxRows == 3         \* most rows accumulated in a run of several calls
MaxBatch == 2        \* most gathers of a batch

MetricVals == {10, 20, 30}
AmpVals == {0, 1, 2}
CellVals == {0, 1, -1}

MaxPlotRows == 2     \* most gathers (rows) of a matrix handed to avo_plot / std_plot
NPlotBins == 3       \* bins (columns) of a matrix handed to avo_plot
NStdBins == 2        \* bins (columns) of a matrix handed to std_plot

----------------------------------------------------------------------------
(* Floating point values *)

Fin(n) == <<n, 1>>
NaN == <<0, 0>>
PosInf == <<1, 0>>
NegInf == <<-1, 0>>

IsNaN(v) == v = NaN
IsFinite(v) == v[2] > 0
IsZero(v) == v[2] > 0 /\ v[1] = 0

Abs(n) == IF n < 0 THEN -n ELSE n

RECURSIVE GCD(_, _)
GCD(a, b) == IF b = 0 THEN a ELSE GCD(b, a % b)

\* n/d in lowest terms, d > 0
Rat(n, d) == LET g == GCD(Abs(n), d) IN <<n \div g, d \div g>>

\* the largest finite float64 (a stand-in: every finite input is far below it)
FloatMax == 1000000

\* a finite sum that leaves the float64 range becomes an infinity
Overflow(v) ==
    IF v[2] > 0 /\ v[1] > FloatMax * v[2] THEN PosInf
    ELSE IF v[2] > 0 /\ -v[1] > FloatMax * v[2] THEN NegInf
    ELSE v

\* IEEE addition
FAdd(a, b) ==
    IF IsNaN(a) \/ IsNaN(b) THEN NaN
    ELSE IF a[2] = 0 /\ b[2] = 0 THEN (IF a = b THEN a ELSE NaN)
    ELSE IF a[2] = 0 THEN a
    ELSE IF b[2] = 0 THEN b
    ELSE Overflow(Rat(a[1] * b[2] + b[1] * a[2], a[2] * b[2]))

\* IEEE division by a positive count
FDivN(a, n) == IF a[2] = 0 THEN a ELSE Rat(a[1], a[2] * n)

RECURSIVE FSum(_)
FSum(s) == IF s = <<>> THEN Fin(0) ELSE FAdd(FSum(SubSeq(s, 1, Len(s) - 1)), s[Len(s)])

\* np.mean / ndarray.mean of a flat array (not-a-number for an empty one)
Mean(s) == IF s = <<>> THEN NaN ELSE FDivN(FSum(s), Len(s))

RECURSIVE SelectNotNaN(_)
SelectNotNaN(s) ==
    IF s = <<>> THEN <<>>
    ELSE LET r == SelectNotNaN(SubSeq(s, 1, Len(s) - 1))
         IN IF IsNaN(s[Len(s)]) THEN r ELSE Append(r, s[Len(s)])

\* np.nanmean / np.nansum of a flat array
NanMean(s) == Mean(SelectNotNaN(s))
NanSum(s) == FSum(SelectNotNaN(s))

----------------------------------------------------------------------------
(* Sequence helpers *)

Range(s) == {s[i] : i \in 1..Len(s)}

SeqsUpTo(S, lo, hi) == UNION {[1..n -> S] : n \in lo..hi}

Min(S) == CHOOSE x \in S : \A y \in S : x <= y
Max(S) == CHOOSE x \in S : \A y \in S : x >= y

\* the k-th smallest element of a set of integers
RECURSIVE Nth(_, _)
Nth(S, k) == IF k = 1 THEN Min(S) ELSE Nth(S \ {Min(S)}, k - 1)

\* ceil(a / b) for b > 0
CeilDiv(a, b) == -((-a) \div b)

\* np.arange(start, stop, step) for step > 0
Arange(start, stop, step) ==
    LET n == IF stop > start THEN CeilDiv(stop - start, step) ELSE 0
    IN [k \in 1..n |-> start + (k - 1) * step]

----------------------------------------------------------------------------
(* seismic_metrics.py: MetricsMap.__init__ *)

LexLess(p, q) == p[1] < q[1] \/ (p[1] = q[1] /\ p[2] < q[2])

\* the rows of S in ascending lexicographic order
RECURSIVE SortRows(_)
SortRows(S) ==
    IF S = {} THEN <<>>
    ELSE LET m == CHOOSE p \in S : \A q \in S \ {p} : LexLess(p, q)
         IN <<m>> \o SortRows(S \ {m})

\* np.unique(coords, axis=0, return_index=True):
\* the distinct rows, sorted, and the index of the first occurrence of each
Unique(c) ==
    LET rows == SortRows(Range(c))
    IN [unique_coords |-> rows,
        position |-> [k \in 1..Len(rows) |-> Min({i \in 1..Len(c) : c[i] = rows[k]})]]

\* np.argsort of distinct integers: the indices in ascending order of their value
RECURSIVE ArgsortFrom(_, _)
ArgsortFrom(p, I) ==
    IF I = {} THEN <<>>
    ELSE LET k == CHOOSE i \in I : \A j \in I : p[i] <= p[j]
         IN <<k>> \o ArgsortFrom(p, I \ {k})

Argsort(p) == ArgsortFrom(p, 1..Len(p))

\* self.coords = unique_coords[np.argsort(position)]
UniqueCoords(c) ==
    LET u == Unique(c)
        order == Argsort(u.position)
    IN [k \in 1..Len(order) |-> u.unique_coords[order[k]]]

\* [[*coord, metric] for coord, metric in zip(self.coords, self.metrics)]
ZipMaps(cs, ms) ==
    LET n == IF Len(cs) < Len(ms) THEN Len(cs) ELSE Len(ms)
    IN [k \in 1..n |-> <<cs[k][1], cs[k][2], ms[k]>>]

Coords == (0..MaxCoord) \X (0..MaxCoord)

NoMap == [built |-> FALSE, metrics |-> <<>>, coords |-> <<>>, maps_list |-> <<>>]

\* MetricsMap(metrics, coords)
MetricsMapInit(metrics, coords) ==
    /\ ~self_map.built
    /\ arg_coords' = coords
    /\ arg_metrics' = metrics
    /\ self_map' = [built |-> TRUE,
                    metrics |-> metrics,
                    coords |-> UniqueCoords(coords),
                    maps_list |-> ZipMaps(UniqueCoords(coords), metrics)]
    /\ UNCHANGED <<gridVars, avoVars, plotVars, appendVars, cellVars, hzVars, poolVars>>

----------------------------------------------------------------------------
(* seismic_metrics.py: MetricsMap.construct_metrics_map *)

\* the boolean mask of the samples of cell (i, j), as the set of their indices
CellMaskUpperInclusive(coords_x, coords_y, range_x, range_y, bin_size, i, j) ==
    {k \in 1..Len(coords_x) :
        /\ coords_x[k] - range_x[i] >= 0
        /\ coords_x[k] - range_x[i] <= bin_size
        /\ coords_y[k] - range_y[j] >= 0
        /\ coords_y[k] - range_y[j] <= bin_size}

CellMask(coords_x, coords_y, range_x, range_y, bin_size, i, j) ==
    {k \in 1..Len(coords_x) :
        /\ coords_x[k] - range_x[i] >= 0
        /\ coords_x[k] - range_x[i] < bin_size
        /\ coords_y[k] - range_y[j] >= 0
        /\ coords_y[k] - range_y[j] < bin_size}

\* metrics[mask], in index order
RECURSIVE Masked(_, _)
Masked(a, mask) ==
    IF mask = {} THEN <<>>
    ELSE LET k == Min(mask) IN <<a[k]>> \o Masked(a, mask \ {k})

\* np.arange(c.min(), c.max() + bin_size, bin_size)
GridRange(c, bin_size) == Arange(Min(Range(c)), Max(Range(c)) + bin_size, bin_size)

\* the grid, rows are y-bins and columns are x-bins, and mask.sum() of every
\* cell; a ValueError (min of an empty array) for no samples
ConstructMetricsMapTransposed(coords_x, coords_y, metrics, bin_size) ==
    IF Len(coords_x) = 0 THEN [status |-> "ValueError", map |-> <<>>, counts |-> <<>>]
    ELSE
    LET range_x == GridRange(coords_x, bin_size)
        range_y == GridRange(coords_y, bin_size)
        mask(i, j) == CellMask(coords_x, coords_y, range_x, range_y, bin_size, i, j)
        cell(i, j) ==
            IF Cardinality(mask(i, j)) > 0
            THEN Mean([k \in 1..Cardinality(mask(i, j)) |->
                          Fin(Masked(metrics, mask(i, j))[k])])
            ELSE NaN
    IN [status |-> "ok",
        map |-> [i \in 1..Len(range_x) |-> [j \in 1..Len(range_y) |-> cell(i, j)]],
        counts |-> [i \in 1..Len(range_x) |->
                      [j \in 1..Len(range_y) |-> Cardinality(mask(i, j))]]]

ConstructMetricsMap(coords_x, coords_y, metrics, bin_size) ==
    IF Len(coords_x) = 0 THEN [status |-> "ValueError", map |-> <<>>, counts |-> <<>>]
    ELSE
    LET range_x == GridRange(coords_x, bin_size)
        range_y == GridRange(coords_y, bin_size)
        mask(i, j) == CellMask(coords_x, coords_y, range_x, range_y, bin_size, i, j)
        cell(i, j) ==
            IF Cardinality(mask(i, j)) > 0
            THEN Mean([k \in 1..Cardinality(mask(i, j)) |->
                          Fin(Masked(metrics, mask(i, j))[k])])
            ELSE NaN
    IN [status |-> "ok",
        map |-> [j \in 1..Len(range_y) |-> [i \in 1..Len(range_x) |-> cell(i, j)]],
        counts |-> [j \in 1..Len(range_y) |->
                      [i \in 1..Len(range_x) |-> Cardinality(mask(i, j))]]]

\* MetricsMap.construct_metrics_map(coords_x, coords_y, metrics, bin_size)
CallConstructMetricsMap(samples, bin_size) ==
    /\ metrics_map.status = "none"
    /\ grid_in' = [coords_x |-> [k \in 1..Len(samples) |-> samples[k][1]],
                   coords_y |-> [k \in 1..Len(samples) |-> samples[k][2]],
                   metrics |-> [k \in 1..Len(samples) |-> samples[k][3]],
                   bin_size |-> bin_size]
    /\ metrics_map' = ConstructMetricsMap(grid_in'.coords_x, grid_in'.coords_y,
                                          grid_in'.metrics, bin_size)
    /\ UNCHANGED <<mapVars, avoVars, plotVars, appendVars, cellVars, hzVars, poolVars>>

\* np.full((len(range_y), len(range_x)), np.nan), before the loop
EmptyGrid(coords_x, coords_y, bin_size) ==
    LET range_x == GridRange(coords_x, bin_size)
        range_y == GridRange(coords_y, bin_size)
    IN [status |-> "running",
        map |-> [j \in 1..Len(range_y) |-> [i \in 1..Len(range_x) |-> NaN]],
        counts |-> [j \in 1..Len(range_y) |-> [i \in 1..Len(range_x) |-> 0]]]

\* the store to the first row of the grid whatever the row of the cell
StoreCellFirstRow(grid, i, j, value) == [grid EXCEPT ![1][i] = value]

\* metrics_map[j, i] = value
StoreCell(grid, i, j, value) == [grid EXCEPT ![j][i] = value]

\* the loop iteration of cell (i, j): lines 127-130
CellIteration(i, j) ==
    LET range_x == GridRange(grid_in.coords_x, grid_in.bin_size)
        range_y == GridRange(grid_in.coords_y, grid_in.bin_size)
        mask == CellMask(grid_in.coords_x, grid_in.coords_y, range_x, range_y,
                         grid_in.bin_size, i, j)
        mean == Mean([k \in 1..Cardinality(mask) |-> Fin(Masked(grid_in.metrics, mask)[k])])
    IN /\ metrics_map.status = "running"
       /\ <<i, j>> \notin cells_done
       /\ cells_done' = cells_done \cup {<<i, j>>}
       /\ metrics_map' =
             [status |-> IF Cardinality(cells_done') = Len(range_x) * Len(range_y)
                         THEN "ok" ELSE "running",
              map |-> IF Cardinality(mask) > 0
                      THEN StoreCell(metrics_map.map, i, j, mean)
                      ELSE metrics_map.map,
              counts |-> StoreCell(metrics_map.counts, i, j, Cardinality(mask))]
       /\ UNCHANGED grid_in
       /\ UNCHANGED <<mapVars, avoVars, plotVars, appendVars, hzVars, poolVars>>

----------------------------------------------------------------------------
(* qc/utils.py: update_avo_params *)

\* A gather is [offset, field, il, xl]: the 'offset' column of batch_df in
\* trace order, the component's array (one row of amplitudes per trace), and
\* INLINE_3D / CROSSLINE_3D of the gather.

\* np.sort of integers
RECURSIVE SortFrom(_, _)
SortFrom(a, I) ==
    IF I = {} THEN <<>>
    ELSE LET k == CHOOSE i \in I : \A j \in I : a[i] <= a[j]
         IN <<a[k]>> \o SortFrom(a, I \ {k})

Sort(a) == SortFrom(a, 1..Len(a))

\* ndarray.astype(np.int32) of a quotient: truncation towards zero
TruncDiv(a, b) == IF a >= 0 THEN a \div b ELSE -((-a) \div b)

\* np.clip
Clip(x, lo, hi) == IF x < lo THEN lo ELSE IF x > hi THEN hi ELSE x

\* horizon[(CROSSLINE_3D == crossline) & (INLINE_3D == inline)]['time']
HorizonTimes(horizon, crossline, inline) ==
    LET hit == {k \in 1..Len(horizon) :
                   horizon[k].xl = crossline /\ horizon[k].il = inline}
    IN [k \in 1..Cardinality(hit) |-> horizon[Nth(hit, k)].time]

\* the window of a gather: the window argument, or the one around the
\* horizon time of the gather; .iloc[0] of an empty selection is an IndexError
GatherWindowOrDefault(g, c) ==
    IF ~c.horizon.given THEN [status |-> "ok", window |-> c.window]
    ELSE LET times == HorizonTimes(c.horizon.table, g.xl, g.il)
         IN IF times = <<>> THEN [status |-> "ok", window |-> c.window]
            ELSE [status |-> "ok",
                  window |->
                    <<Clip(TruncDiv(times[1] - c.horizon_window[1], c.t_step), 0, c.n_samples),
                      Clip(TruncDiv(times[1] + c.horizon_window[2], c.t_step), 0, c.n_samples)>>]

GatherWindow(g, c) ==
    IF ~c.horizon.given THEN [status |-> "ok", window |-> c.window]
    ELSE LET times == HorizonTimes(c.horizon.table, g.xl, g.il)
         IN IF times = <<>> THEN [status |-> "IndexError", window |-> <<>>]
            ELSE [status |-> "ok",
                  window |->
                    <<Clip(TruncDiv(times[1] - c.horizon_window[1], c.t_step), 0, c.n_samples),
                      Clip(TruncDiv(times[1] + c.horizon_window[2], c.t_step), 0, c.n_samples)>>]

\* bin_size[bin_size < x] of an array of edges
RECURSIVE EdgesBelow(_, _)
EdgesBelow(edges, x) ==
    IF edges = <<>> THEN <<>>
    ELSE LET r == EdgesBelow(SubSeq(edges, 1, Len(edges) - 1), x)
         IN IF edges[Len(edges)] < x THEN Append(r, edges[Len(edges)]) ELSE r

\* step_list, from the sorted offsets
StepList(offset, bin_size) ==
    IF bin_size.kind = "int"
    THEN Arange(0, offset[Len(offset)] + bin_size.size, bin_size.size)
    ELSE Append(EdgesBelow(bin_size.edges, offset[Len(offset)]), offset[Len(offset)] + 1)

\* row[lo : hi] of Python, for 0 <= lo and 0 <= hi
Slice(row, lo, hi) == SubSeq(row, lo + 1, IF hi < Len(row) THEN hi ELSE Len(row))

RECURSIVE Flatten(_)
Flatten(rows) ==
    IF rows = <<>> THEN <<>>
    ELSE Flatten(SubSeq(rows, 1, Len(rows) - 1)) \o rows[Len(rows)]

\* subfield[subfield == 0] = np.nan
ZeroToNaN(a) == [k \in 1..Len(a) |-> IF IsZero(a[k]) THEN NaN ELSE a[k]]

\* the aggregators a caller passes as calc_method / avg_method
Reduce(method, a) ==
    CASE method = "nanmean" -> NanMean(a)
      [] method = "nansum" -> NanSum(a)
      [] method = "mean" -> Mean(a)

\* np.nan_to_num(x, 0): the second positional argument is `copy`, so the
\* replacements are the defaults
NanToNumAllZero(x) ==
    IF IsFinite(x) THEN x ELSE Fin(0)

NanToNum(x) ==
    IF IsNaN(x) THEN Fin(0)
    ELSE IF x = PosInf THEN Fin(FloatMax)
    ELSE IF x = NegInf THEN Fin(-FloatMax)
    ELSE x

\* the positions the mask of bin i selects: offset is the SORTED offsets
BinMask(offset, step_list, i) ==
    {t \in 1..Len(offset) : offset[t] >= step_list[i] /\ offset[t] < step_list[i + 1]}

\* calc_method(subfield) of bin i: the mask taken on the sorted offsets
\* selects rows of field, which is in trace order
BinAggregate(g, c, window, i) ==
    LET offset == Sort(g.offset)
        step_list == StepList(offset, c.bin_size)
        mask == BinMask(offset, step_list, i)
        subfield == [k \in 1..Cardinality(mask) |->
                        Slice(g.field[Nth(mask, k)], window[1], window[2] + 1)]
    IN Reduce(c.calc_method, ZeroToNaN(Flatten(subfield)))

\* storage for one gather; storage[i] beyond storage_size is an IndexError
OffsetBinVector(g, c) ==
    LET offset == Sort(g.offset)
        step_list == StepList(offset, c.bin_size)
        n_bins == Len(step_list) - 1
        w == GatherWindow(g, c)
    IN IF w.status # "ok" THEN [status |-> w.status, storage |-> <<>>]
       ELSE IF n_bins > c.storage_size THEN [status |-> "IndexError", storage |-> <<>>]
       ELSE [status |-> "ok",
             storage |-> [i \in 1..c.storage_size |->
                 IF i > n_bins THEN Fin(0)
                 ELSE IF BinMask(offset, step_list, i) = {} THEN Fin(0)
                 ELSE NanToNum(BinAggregate(g, c, w.window, i))]]

\* the window looked up for the first gather only and kept for the later ones
RebindWindowOnce(c, g) ==
    IF c.horizon.given
    THEN [c EXCEPT !.window = GatherWindow(g, c).window,
                   !.horizon = [given |-> FALSE, table |-> <<>>]]
    ELSE c

\* the arguments as the next iteration of the loop finds them: with a horizon
\* the name window is bound to the window of the gather just processed
RebindWindow(c, g) ==
    IF c.horizon.given THEN [c EXCEPT !.window = GatherWindow(g, c).window] ELSE c

\* the loop over batch.indices: one row appended per gather
RECURSIVE PrependRows(_, _, _)
PrependRows(p, batch, c) ==
    IF batch = <<>> THEN [status |-> "ok", params |-> p]
    ELSE LET v == OffsetBinVector(batch[1], c)
         IN IF v.status # "ok" THEN [status |-> v.status, params |-> <<>>]
            ELSE PrependRows(<<v.storage>> \o p, SubSeq(batch, 2, Len(batch)), c)

RECURSIVE AppendRows(_, _, _)
AppendRows(p, batch, c) ==
    IF batch = <<>> THEN [status |-> "ok", params |-> p]
    ELSE LET v == OffsetBinVector(batch[1], c)
         IN IF v.status # "ok" THEN [status |-> v.status, params |-> <<>>]
            ELSE AppendRows(Append(p, v.storage), SubSeq(batch, 2, Len(batch)),
                            RebindWindow(c, batch[1]))

\* params = update_avo_params(params, batch, ...) in the caller; when the call
\* raises, the caller's params keeps the storage that was passed in
UpdateAvoParams(batch, maxRows) ==
    /\ Len(params) + Len(batch) <= maxRows
    /\ LET r == AppendRows(params, batch, cfg)
       IN /\ status' = r.status
          /\ params_in' = params
          /\ last_batch' = batch
          /\ params' = IF r.status = "ok" THEN r.params ELSE params
          /\ processed' = IF r.status = "ok" THEN processed \o batch ELSE processed
    /\ UNCHANGED <<cfg, mapVars, gridVars, plotVars, appendVars, cellVars, hzVars, poolVars>>

----------------------------------------------------------------------------
(* qc/utils.py: avo_plot *)

\* data.T
Transpose(m) == [b \in 1..Len(m[1]) |-> [r \in 1..Len(m) |-> m[r][b]]]

\* np.nonzero(a)[0]: the 0-based indices of the entries that are not 0
RECURSIVE Nonzero(_)
Nonzero(a) ==
    IF a = <<>> THEN <<>>
    ELSE LET r == Nonzero(SubSeq(a, 1, Len(a) - 1))
         IN IF IsZero(a[Len(a)]) THEN r ELSE Append(r, Len(a) - 1)

\* a[idx] for 0-based indices idx
Take(a, idx) == [k \in 1..Len(idx) |-> a[idx[k] + 1]]

\* the bin offsets: nonzeros for 'offset', nonzeros * bin_size for an int
BinOffsetsRenumbered(nonzeros, bin_size) ==
    IF bin_size.kind = "offset" THEN [k \in 1..Len(nonzeros) |-> k - 1]
    ELSE [k \in 1..Len(nonzeros) |-> (k - 1) * bin_size.size]

BinOffsets(nonzeros, bin_size) ==
    IF bin_size.kind = "offset" THEN nonzeros
    ELSE [k \in 1..Len(nonzeros) |-> nonzeros[k] * bin_size.size]

\* the callables a caller passes as avg_method, by name: a row-wise np.nansum
Callables == {"nansum"}

\* what avo_plot computes before drawing: the kept bins, their averages and
\* offsets and their rows of the data.  The polynomial is not modelled, only
\* that np.polyfit raises a TypeError when no bin is left.
AvoPlotResult(data, bin_size, avg_method) ==
    LET transposed_data == Transpose(data)
        nan_data == [b \in 1..Len(transposed_data) |-> ZeroToNaN(transposed_data[b])]
        method == IF avg_method = "mean" THEN "nanmean" ELSE avg_method
        avg_value == [b \in 1..Len(nan_data) |-> NanToNum(Reduce(method, nan_data[b]))]
        nonzeros == Nonzero(avg_value)
    IN IF avg_method # "mean" /\ avg_method \notin Callables
       THEN [fn |-> "avo_plot", status |-> "ValueError"]
       ELSE IF nonzeros = <<>>
       THEN [fn |-> "avo_plot", status |-> "TypeError"]
       ELSE [fn |-> "avo_plot", status |-> "ok",
             nonzeros |-> nonzeros,
             avg_value |-> Take(avg_value, nonzeros),
             transposed_data |-> Take(transposed_data, nonzeros),
             bin_size |-> BinOffsets(nonzeros, bin_size)]

\* The stats argument is [kind, items]: None, a string (one item) or a list
\* of entries; an entry is 'std', 'corr', a callable (written "callable") or
\* any other string.
NoStats == [kind |-> "None", items |-> <<>>]
StatsStr(s) == [kind |-> "str", items |-> <<s>>]
StatsList(l) == [kind |-> "list", items |-> l]

\* stats_names after the loop over stats; only the names are modelled, the
\* values of stats_val go to the title of the figure
RECURSIVE StatsNames(_)
StatsNames(items) ==
    IF items = <<>> THEN <<>>
    ELSE LET names == StatsNames(SubSeq(items, 1, Len(items) - 1))
             stat == items[Len(items)]
         IN IF stat = "std" THEN Append(names, "Mean std")
            ELSE IF stat = "corr" THEN Append(names, "Corr")
            ELSE IF stat = "callable" THEN Append(names, "Callable stat")
            ELSE names

\* lines 275-290 after a result of lines 247-273: an entry of no known kind
\* builds a ValueError that is not raised
AvoPlotStats(result, stats) ==
    IF result.status # "ok" THEN result
    ELSE result @@ [stats_names |-> StatsNames(stats.items)]

\* avo_plot(data, bin_size, amp_size, avg_size, avg_method, stats=stats)
AvoPlot(data, bin_size, avg_method, stats) ==
    /\ plot_out.fn = "none"
    /\ plot_in' = [fn |-> "avo_plot", data |-> data, bin_size |-> bin_size,
                   avg_method |-> avg_method, stats |-> stats]
    /\ plot_out' = AvoPlotStats(AvoPlotResult(data, bin_size, avg_method), stats)
    /\ UNCHANGED <<mapVars, gridVars, avoVars, appendVars, cellVars, hzVars, poolVars>>

----------------------------------------------------------------------------
(* qc/utils.py: std_plot *)

FNeg(a) == <<-a[1], a[2]>>

\* np.sum(results, axis=1)
RowSums(m) == [b \in 1..Len(m) |-> FSum(m[b])]

\* offsets.repeat(n)
Repeat(a, n) == [k \in 1..(Len(a) * n) |-> a[((k - 1) \div n) + 1]]

\* the rows of one AVO in the long table: [val, indices, name]
SeriesRowsAllBins(results_in, name, bin_size) ==
    LET results == Transpose(results_in)
        nonzeros_ixs == [k \in 1..Len(results) |-> k - 1]
        offsets == [k \in 1..Len(nonzeros_ixs) |-> nonzeros_ixs[k] * bin_size]
        values == Flatten(Take(results, nonzeros_ixs))
        nonzeros_res == Nonzero(values)
        nonzeros_val == Take(values, nonzeros_res)
        nonzeros_off == Take(Repeat(offsets, Len(results[1])), nonzeros_res)
    IN [k \in 1..Len(nonzeros_val) |->
           [val |-> nonzeros_val[k], indices |-> nonzeros_off[k], name |-> name]]

SeriesRows(results_in, name, bin_size) ==
    LET results == Transpose(results_in)
        nonzeros_ixs == Nonzero(RowSums(results))
        offsets == [k \in 1..Len(nonzeros_ixs) |-> nonzeros_ixs[k] * bin_size]
        values == Flatten(Take(results, nonzeros_ixs))
        nonzeros_res == Nonzero(values)
        nonzeros_val == Take(values, nonzeros_res)
        nonzeros_off == Take(Repeat(offsets, Len(results[1])), nonzeros_res)
    IN [k \in 1..Len(nonzeros_val) |->
           [val |-> nonzeros_val[k], indices |-> nonzeros_off[k], name |-> name]]

RECURSIVE AllSeriesRows(_, _, _)
AllSeriesRows(avo_results, names, bin_size) ==
    IF avo_results = <<>> \/ names = <<>> THEN <<>>
    ELSE LET n == IF Len(avo_results) < Len(names) THEN Len(avo_results) ELSE Len(names)
         IN AllSeriesRows(SubSeq(avo_results, 1, n - 1), SubSeq(names, 1, n - 1), bin_size)
            \o SeriesRows(avo_results[n], names[n], bin_size)

Vals(df) == [k \in 1..Len(df) |-> df[k].val]

RECURSIVE SelectName(_, _)
SelectName(df, name) ==
    IF df = <<>> THEN <<>>
    ELSE LET r == SelectName(SubSeq(df, 1, Len(df) - 1), name)
         IN IF df[Len(df)].name = name THEN Append(r, df[Len(df)]) ELSE r

\* the shift taken with the opposite sign: own mean minus total mean
AlignMeanOppositeSign(df) ==
    LET gen_mean == Mean(Vals(df))
        align(name) == FAdd(Mean(Vals(SelectName(df, name))), FNeg(gen_mean))
    IN [k \in 1..Len(df) |-> [df[k] EXCEPT !.val = FAdd(df[k].val, align(df[k].name))]]

\* every AVO shifted by the difference of the total mean and its own mean
AlignMean(df) ==
    LET gen_mean == Mean(Vals(df))
        align(name) == FAdd(gen_mean, FNeg(Mean(Vals(SelectName(df, name)))))
    IN [k \in 1..Len(df) |-> [df[k] EXCEPT !.val = FAdd(df[k].val, align(df[k].name))]]

\* np.arange(len(avo_results)).astype(str)
DefaultNames(n) == [k \in 1..n |-> ToString(k - 1)]

\* resulted_df of std_plot, the table handed to seaborn
StdPlotResult(avo_results, bin_size, names, align_mean) ==
    LET df == AllSeriesRows(avo_results,
                            IF names = <<>> THEN DefaultNames(Len(avo_results)) ELSE names,
                            bin_size)
    IN [fn |-> "std_plot", status |-> "ok",
        resulted_df |-> IF align_mean THEN AlignMean(df) ELSE df]

\* std_plot(avo_results, bin_size, names, align_mean); names = <<>> is None
StdPlot(avo_results, bin_size, names, align_mean) ==
    /\ plot_out.fn = "none"
    /\ plot_in' = [fn |-> "std_plot", avo_results |-> avo_results, bin_size |-> bin_size,
                   names |-> names, align_mean |-> align_mean]
    /\ plot_out' = StdPlotResult(avo_results, bin_size, names, align_mean)
    /\ UNCHANGED <<mapVars, gridVars, avoVars, appendVars, cellVars, hzVars, poolVars>>

----------------------------------------------------------------------------
(* seismic_metrics.py: SemblanceMetrics, PM *)

\* float operations of the calculators (finite values and not-a-number)
FSub(a, b) == FAdd(a, FNeg(b))
FLess(a, b) == a[1] * b[2] < b[1] * a[2]
FMul(a, b) == IF IsNaN(a) \/ IsNaN(b) THEN NaN ELSE Rat(a[1] * b[1], a[2] * b[2])
FDiv(a, b) ==
    IF IsNaN(a) \/ IsNaN(b) THEN NaN
    ELSE IF b[1] < 0 THEN Rat(-(a[1] * b[2]), -(a[2] * b[1]))
    ELSE Rat(a[1] * b[2], a[2] * b[1])
FAbs(a) == <<Abs(a[1]), a[2]>>

\* np.sqrt of a rational whose numerator and denominator are squares
Sqrt(v) ==
    IF IsNaN(v) THEN NaN
    ELSE <<CHOOSE r \in 0..v[1] : r * r = v[1], CHOOSE r \in 1..v[2] : r * r = v[2]>>

\* np.max / np.min of a non-empty array
FMax(s) ==
    IF \E k \in 1..Len(s) : IsNaN(s[k]) THEN NaN
    ELSE CHOOSE v \in Range(s) : \A w \in Range(s) : ~FLess(v, w)
FMin(s) ==
    IF \E k \in 1..Len(s) : IsNaN(s[k]) THEN NaN
    ELSE CHOOSE v \in Range(s) : \A w \in Range(s) : ~FLess(w, v)

\* np.max(semblance, axis=1) - np.min(semblance, axis=1), one entry per row
SpreadAlongAxis1(semblance) ==
    [r \in 1..Len(semblance) |-> FSub(FMax(semblance[r]), FMin(semblance[r]))]

\* the spread taken down the columns: np.max(np.max(semblance, axis=0) - ...)
CalculateMinmaxAxis0(semblance) ==
    FMax([c \in 1..Len(semblance[1]) |->
             FSub(FMax([r \in 1..Len(semblance) |-> semblance[r][c]]),
                  FMin([r \in 1..Len(semblance) |-> semblance[r][c]]))])

\* np.max(np.max(semblance, axis=1) - np.min(semblance, axis=1))
CalculateMinmax(semblance) == FMax(SpreadAlongAxis1(semblance))

\* np.std of a flat array
Std(a) ==
    LET m == Mean(a)
    IN Sqrt(Mean([k \in 1..Len(a) |-> FMul(FSub(a[k], m), FSub(a[k], m))]))

\* np.max(np.std(semblance, axis=1))
CalculateStd(semblance) == FMax([r \in 1..Len(semblance) |-> Std(semblance[r])])

\* np.mean(offset[time > 1] / time[time > 1])
Velocity(time, offset) ==
    LET mask == Nonzero([k \in 1..Len(time) |->
                            IF FLess(Fin(1), time[k]) THEN Fin(1) ELSE Fin(0)])
        t == Take(time, mask)
        o == Take(offset, mask)
    IN Mean([k \in 1..Len(mask) |-> FDiv(o[k], t[k])])

\* a in ascending order
RECURSIVE SortFloats(_)
SortFloats(a) ==
    IF a = <<>> THEN <<>>
    ELSE LET k == CHOOSE i \in 1..Len(a) : \A j \in 1..Len(a) : ~FLess(a[j], a[i])
         IN <<a[k]>> \o SortFloats(SubSeq(a, 1, k - 1) \o SubSeq(a, k + 1, Len(a)))

\* np.median of a flat array
Median(a) ==
    IF a = <<>> \/ \E k \in 1..Len(a) : IsNaN(a[k]) THEN NaN
    ELSE LET s == SortFloats(a)
             n == Len(a)
         IN IF n % 2 = 1 THEN s[(n + 1) \div 2]
            ELSE FDivN(FAdd(s[n \div 2], s[(n \div 2) + 1]), 2)

\* scipy.stats.siegelslopes(y, x): repeated medians, hierarchical intercept
Siegelslopes(y, x) ==
    LET n == Len(x)
        slopes_j(j) ==
            LET deltax == [i \in 1..n |-> FSub(x[i], x[j])]
                deltay == [i \in 1..n |-> FSub(y[i], y[j])]
                id_nonzero == Nonzero(deltax)
            IN [k \in 1..Len(id_nonzero) |->
                   FDiv(Take(deltay, id_nonzero)[k], Take(deltax, id_nonzero)[k])]
        medslope == Median([j \in 1..n |-> Median(slopes_j(j))])
        medinter == Median([k \in 1..n |-> FSub(y[k], FMul(medslope, x[k]))])
    IN <<medslope, medinter>>

\* the two values linear_diff stores: mean(values), mean(time_for_elev)
LinearDiff(g) ==
    LET n == Len(g.offset)
        sq(v) == FMul(v, v)
        offset_all == [k \in 1..n |->
                          Sqrt(FAdd(FAdd(sq(FSub(g.gx[k], g.sx[k])),
                                         sq(FSub(g.gy[k], g.sy[k]))),
                                    sq(FSub(g.s_elev[k], g.g_elev[k]))))]
        sl == Siegelslopes(g.picking, g.offset)
        values == [k \in 1..n |->
                      FAbs(FSub(FAdd(FMul(g.offset[k], sl[1]), sl[2]), g.picking[k]))]
        time_for_elev == [k \in 1..n |->
                             FAbs(FMul(FSub(g.offset[k], offset_all[k]), sl[1]))]
    IN <<Mean(values), Mean(time_for_elev)>>

\* what a calculator stores for the gather it read: one value per dst component
Calculate(calc, g) ==
    IF calc = "calculate_minmax" THEN <<CalculateMinmax(g.semblance)>>
    ELSE IF calc = "calculate_std" THEN <<CalculateStd(g.semblance)>>
    ELSE IF calc = "velocity" THEN <<Velocity(g.picking, g.offset)>>
    ELSE LinearDiff(g)

\* batch.get_pos(None, src, index): the position of index in batch.indices
GetPos(index) == CHOOSE p \in 1..Len(pool.indices) : pool.indices[p] = index

\* a slot of a dst component before its task has written it
None == <<>>

\* the dst components after _init_component: one slot per gather
InitComponent(calc, n) ==
    [a \in 1..(IF calc = "linear_diff" THEN 2 ELSE 1) |-> [p \in 1..n |-> None]]

NoTask == [pc |-> "start", pos |-> 0, local |-> <<>>]

\* the store to the first slot of the component whatever the position
SetSlotFirst(components, a, pos, value) == [components EXCEPT ![a][1] = value]

\* getattr(batch, dst)[pos] = value
SetSlot(components, a, pos, value) == [components EXCEPT ![a][pos] = value]

\* a task up to its last read: pos = batch.get_pos(...); getattr(batch, src)[pos]
TaskRead(index) ==
    /\ task[index].pc = "start"
    /\ task' = [task EXCEPT ![index] = [pc |-> "read", pos |-> GetPos(index),
                                        local |-> pool.src[GetPos(index)]]]
    /\ UNCHANGED <<pool, dst>>
    /\ UNCHANGED <<mapVars, gridVars, avoVars, plotVars, appendVars, cellVars, hzVars>>

\* the store of a task to (the first) dst component
TaskWrite(index) ==
    /\ task[index].pc = "read"
    /\ dst' = SetSlot(dst, 1, task[index].pos, Calculate(pool.calc, task[index].local)[1])
    /\ task' = [task EXCEPT ![index].pc =
                   IF pool.calc = "linear_diff" THEN "stored" ELSE "done"]
    /\ UNCHANGED pool
    /\ UNCHANGED <<mapVars, gridVars, avoVars, plotVars, appendVars, cellVars, hzVars>>

\* the store of a linear_diff task to its second dst component
TaskWriteSecond(index) ==
    /\ task[index].pc = "stored"
    /\ dst' = SetSlot(dst, 2, task[index].pos, Calculate(pool.calc, task[index].local)[2])
    /\ task' = [task EXCEPT ![index].pc = "done"]
    /\ UNCHANGED pool
    /\ UNCHANGED <<mapVars, gridVars, avoVars, plotVars, appendVars, cellVars, hzVars>>

----------------------------------------------------------------------------
(* qc/utils.py: load_horizon *)

\* A line is a sequence of characters; a character is a string of length one.
Digits == {"1", "2"}
Letters == {"x"}
DigitVal(c) == IF c = "1" THEN 1 ELSE 2

\* re.sub('[a-zA-Z:]', ' ', line)
SubLetters(line) ==
    [k \in 1..Len(line) |-> IF line[k] \in Letters \cup {":"} THEN " " ELSE line[k]]

\* line.strip()
RECURSIVE Strip(_)
Strip(line) ==
    IF line = <<>> THEN <<>>
    ELSE IF line[1] = " " THEN Strip(Tail(line))
    ELSE IF line[Len(line)] = " " THEN Strip(SubSeq(line, 1, Len(line) - 1))
    ELSE line

\* re.sub(' +', ' ', line)
RECURSIVE CollapseSpaces(_)
CollapseSpaces(line) ==
    IF Len(line) < 2 THEN line
    ELSE IF line[1] = " " /\ line[2] = " " THEN CollapseSpaces(Tail(line))
    ELSE <<line[1]>> \o CollapseSpaces(Tail(line))

\* lines 186-187
Clean(line) == CollapseSpaces(Strip(SubLetters(line)))

\* line.split(' ')
RECURSIVE Split(_)
Split(line) ==
    IF \A k \in 1..Len(line) : line[k] # " " THEN <<line>>
    ELSE LET k == CHOOSE i \in 1..Len(line) :
                      line[i] = " " /\ \A j \in 1..(i - 1) : line[j] # " "
         IN <<SubSeq(line, 1, k - 1)>> \o Split(SubSeq(line, k + 1, Len(line)))

\* the number a string of digits denotes
RECURSIVE Decimal(_)
Decimal(token) ==
    IF token = <<>> THEN 0
    ELSE 10 * Decimal(SubSeq(token, 1, Len(token) - 1)) + DigitVal(token[Len(token)])

RECURSIVE Pow10(_)
Pow10(n) == IF n = 0 THEN 1 ELSE 10 * Pow10(n - 1)

\* int(token): [ok, val]
ParseInt(token) ==
    IF token # <<>> /\ \A k \in 1..Len(token) : token[k] \in Digits
    THEN [ok |-> TRUE, val |-> Decimal(token)]
    ELSE [ok |-> FALSE, val |-> 0]

\* float(token): digits with at most one point and at least one digit
ParseFloat(token) ==
    LET points == {k \in 1..Len(token) : token[k] = "."}
        digits == {k \in 1..Len(token) : token[k] \in Digits}
    IN IF digits = {} \/ Cardinality(points) > 1
          \/ Cardinality(points) + Cardinality(digits) # Len(token)
       THEN [ok |-> FALSE, val |-> NaN]
       ELSE IF points = {} THEN [ok |-> TRUE, val |-> Fin(Decimal(token))]
       ELSE LET p == CHOOSE k \in points : TRUE
                whole == SubSeq(token, 1, p - 1)
                frac == SubSeq(token, p + 1, Len(token))
            IN [ok |-> TRUE,
                val |-> Rat(Decimal(whole) * Pow10(Len(frac)) + Decimal(frac),
                            Pow10(Len(frac)))]

\* [int(line[0]), int(line[1]), float(line[-1])], evaluated left to right
ParseLine(tokens) ==
    IF ~ParseInt(tokens[1]).ok THEN [status |-> "ValueError", row |-> <<>>]
    ELSE IF Len(tokens) < 2 THEN [status |-> "IndexError", row |-> <<>>]
    ELSE IF ~ParseInt(tokens[2]).ok \/ ~ParseFloat(tokens[Len(tokens)]).ok
    THEN [status |-> "ValueError", row |-> <<>>]
    ELSE [status |-> "ok",
          row |-> <<ParseInt(tokens[1]).val, ParseInt(tokens[2]).val,
                    ParseFloat(tokens[Len(tokens)]).val>>]

\* the loop over the lines of the file; an exception leaves no table
RECURSIVE LoadHorizon(_)
LoadHorizon(lines) ==
    IF lines = <<>> THEN [status |-> "ok", horizon_val |-> <<>>]
    ELSE LET before == LoadHorizon(SubSeq(lines, 1, Len(lines) - 1))
             line == Clean(lines[Len(lines)])
             parsed == ParseLine(Split(line))
         IN IF before.status # "ok" THEN before
            ELSE IF line = <<>> THEN before
            ELSE IF parsed.status # "ok"
            THEN [status |-> parsed.status, horizon_val |-> <<>>]
            ELSE [status |-> "ok", horizon_val |-> Append(before.horizon_val, parsed.row)]

\* load_horizon(horizon) on a file of the given lines
CallLoadHorizon(lines) ==
    /\ hz_out.status = "none"
    /\ hz_file' = lines
    /\ hz_out' = LoadHorizon(lines)
    /\ UNCHANGED <<mapVars, gridVars, avoVars, plotVars, appendVars, cellVars, poolVars>>

----------------------------------------------------------------------------
(* seismic_metrics.py: MetricsMap.append *)

\* the samples of the other list whose coordinates the list does not hold yet
RECURSIVE ExtendUnique(_, _)
ExtendUnique(maps_list, other) ==
    IF other = <<>> THEN maps_list
    ELSE IF \E k \in 1..Len(maps_list) :
               maps_list[k][1] = other[1][1] /\ maps_list[k][2] = other[1][2]
    THEN ExtendUnique(maps_list, Tail(other))
    ELSE ExtendUnique(Append(maps_list, other[1]), Tail(other))

\* list.extend
Extend(maps_list, other) == maps_list \o other

\* self.append(metrics) for the objects named self and metrics
MetricsMapAppend(self, metrics, maxLen) ==
    /\ Len(maps[self]) + Len(maps[metrics]) <= maxLen
    /\ maps' = [maps EXCEPT ![self] = Extend(maps[self], maps[metrics])]
    /\ last_append' = [fn |-> "append", self |-> self, metrics |-> metrics, before |-> maps]
    /\ UNCHANGED <<mapVars, gridVars, avoVars, plotVars, cellVars, hzVars, poolVars>>

----------------------------------------------------------------------------
(* Initial states *)

NoGridIn == [coords_x |-> <<>>, coords_y |-> <<>>, metrics |-> <<>>, bin_size |-> 1]
NoGrid == [status |-> "none", map |-> <<>>, counts |-> <<>>]

InitMapVars ==
    /\ arg_coords = <<>>
    /\ arg_metrics = <<>>
    /\ self_map = NoMap

InitGridVars ==
    /\ grid_in = NoGridIn
    /\ metrics_map = NoGrid

InitAvoVars ==
    /\ cfg = <<>>
    /\ params = <<>>
    /\ params_in = <<>>
    /\ last_batch = <<>>
    /\ processed = <<>>
    /\ status = "none"

InitPlotVars ==
    /\ plot_in = [fn |-> "none"]
    /\ plot_out = [fn |-> "none"]

InitAppendVars ==
    /\ maps = <<>>
    /\ last_append = [fn |-> "none"]

InitCellVars == cells_done = {}

InitHzVars ==
    /\ hz_file = <<>>
    /\ hz_out = [status |-> "none", horizon_val |-> <<>>]

InitPoolVars ==
    /\ pool = [calc |-> "none"]
    /\ dst = <<>>
    /\ task = <<>>

InitOtherVars == InitAppendVars /\ InitCellVars /\ InitHzVars /\ InitPoolVars

Init == InitMapVars /\ InitGridVars /\ InitAvoVars /\ InitPlotVars /\ InitOtherVars

----------------------------------------------------------------------------
(* MetricsMap construction *)

NextMap ==
    ~self_map.built /\ \E coords \in SeqsUpTo(Coords, 1, MaxLen), metrics \in SeqsUpTo(MetricVals, 1, MaxLen) :
        MetricsMapInit(metrics, coords)

SpecMap == Init /\ [][NextMap]_vars

(* Grid construction *)

Samples == {<<c[1], c[2], v>> : c \in Coords, v \in MetricVals}

NextGrid ==
    metrics_map.status = "none" /\ \E samples \in SeqsUpTo(Samples, 0, MaxSamples), bin_size \in 1..MaxBinSize :
        CallConstructMetricsMap(samples, bin_size)

SpecGrid == Init /\ [][NextGrid]_vars

(* The loop of construct_metrics_map, its iterations in any order *)

MaxCellSamples == 2  \* most samples of a grid built iteration by iteration

InitCells ==
    /\ InitMapVars /\ InitAvoVars /\ InitPlotVars
    /\ InitAppendVars /\ InitHzVars /\ InitPoolVars
    /\ \E samples \in SeqsUpTo(Samples, 1, MaxCellSamples), bin_size \in 1..MaxBinSize :
          grid_in = [coords_x |-> [k \in 1..Len(samples) |-> samples[k][1]],
                     coords_y |-> [k \in 1..Len(samples) |-> samples[k][2]],
                     metrics |-> [k \in 1..Len(samples) |-> samples[k][3]],
                     bin_size |-> bin_size]
    /\ metrics_map = EmptyGrid(grid_in.coords_x, grid_in.coords_y, grid_in.bin_size)
    /\ cells_done = {}

\* prange: any iteration that has not run may run next
NextCells ==
    \E i \in 1..Len(metrics_map.map[1]), j \in 1..Len(metrics_map.map) : CellIteration(i, j)

SpecCells == InitCells /\ [][NextCells]_vars

----------------------------------------------------------------------------
(* Offset binning of single gathers: every gather within the bounds *)

IntBin(n) == [kind |-> "int", size |-> n, edges |-> <<>>]
EdgeBins(e) == [kind |-> "edges", size |-> 0, edges |-> e]

NoHorizon == [given |-> FALSE, table |-> <<>>]
Horizon(t) == [given |-> TRUE, table |-> t]

Floats(ints) == {Fin(a) : a \in ints}

Traces(amps) == [1..NSamples -> amps]

Gathers(amps, maxTraces, inlines) ==
    UNION {[offset : [1..n -> 0..MaxOffset], field : [1..n -> Traces(amps)],
            il : inlines, xl : {1}] : n \in 1..maxTraces}

BinCfgs ==
    [bin_size : {IntBin(b) : b \in 1..MaxBinSize} \cup {EdgeBins(<<0, 1>>)},
     storage_size : {StorageSize},
     window : {<<0, 0>>, <<0, 1>>},
     horizon_window : {<<0, 0>>},
     horizon : {NoHorizon},
     calc_method : {"nanmean", "nansum", "mean"},
     n_samples : {NSamples},
     t_step : {TStep}]

InitBin ==
    /\ InitMapVars /\ InitGridVars /\ InitPlotVars /\ InitOtherVars
    /\ cfg \in BinCfgs
    /\ params = <<>>
    /\ params_in = <<>>
    /\ last_batch = <<>>
    /\ processed = <<>>
    /\ status = "none"

NextBin == status = "none" /\ \E g \in Gathers(Floats(AmpVals), MaxTraces, {1}) : UpdateAvoParams(<<g>>, 1)

SpecBin == InitBin /\ [][NextBin]_vars

(* Accumulation over the batches of a run, with and without a horizon *)

HorizonTables ==
    {NoHorizon,
     Horizon(<<[il |-> 1, xl |-> 1, time |-> 3]>>),
     Horizon(<<[il |-> 1, xl |-> 1, time |-> 0], [il |-> 1, xl |-> 1, time |-> 3]>>),
     Horizon(<<[il |-> 1, xl |-> 1, time |-> 0], [il |-> 2, xl |-> 1, time |-> 3]>>)}

SeqCfgs ==
    [bin_size : {IntBin(1)},
     storage_size : {StorageSize - 1, StorageSize},
     window : {<<0, 0>>},
     horizon_window : {<<1, 1>>},
     horizon : HorizonTables,
     calc_method : {"nanmean"},
     n_samples : {NSamples},
     t_step : {TStep}]

\* two traces: amplitudes 1, 2, 2, ... and amplitudes 2, 2, 2, ...
RampTrace == [k \in 1..NSamples |-> IF k = 1 THEN Fin(1) ELSE Fin(2)]
FlatTrace == [k \in 1..NSamples |-> Fin(2)]

SeqGathers ==
    {[offset |-> <<0>>, field |-> <<RampTrace>>, il |-> i, xl |-> 1] : i \in {1, 2}}
    \cup {[offset |-> <<1>>, field |-> <<FlatTrace>>, il |-> i, xl |-> 1] : i \in {1, 2}}
    \cup {[offset |-> <<2, 0>>, field |-> <<RampTrace, FlatTrace>>, il |-> i, xl |-> 1] :
             i \in {1, 2}}

InitAvo ==
    /\ InitMapVars /\ InitGridVars /\ InitPlotVars /\ InitOtherVars
    /\ cfg \in SeqCfgs
    /\ params = <<>>
    /\ params_in = <<>>
    /\ last_batch = <<>>
    /\ processed = <<>>
    /\ status = "none"

NextAvo == Len(params) < MaxRows /\ \E batch \in SeqsUpTo(SeqGathers, 1, MaxBatch) : UpdateAvoParams(batch, MaxRows)

SpecAvo == InitAvo /\ [][NextAvo]_vars

(* Summaries of accumulated matrices *)

Matrices(cells, maxRows, nBins) == UNION {[1..r -> [1..nBins -> cells]] : r \in 1..maxRows}

AvgMethods == {"mean", "nansum", "median"}

PlotBinSizes == {IntBin(MaxBinSize), [kind |-> "offset", size |-> 0, edges |-> <<>>]}

\* one AVO, or one AVO and a second one of a single gather
\* the stats arguments other than None
StatsArgs ==
    {StatsStr("std"), StatsStr("var"),
     StatsList(<<"std", "corr", "callable">>), StatsList(<<"std", "var">>)}

SeriesLists ==
    {<<m>> : m \in Matrices(Floats(CellVals), MaxPlotRows, NStdBins)}
    \cup {<<m, r>> : m \in Matrices(Floats(CellVals), MaxPlotRows, NStdBins),
                     r \in Matrices(Floats(CellVals), 1, NStdBins)}

NamesFor(avo_results) ==
    {<<>>, [k \in 1..Len(avo_results) |-> "a"]}

NextPlot ==
    \/ /\ plot_out.fn = "none"
       /\ \E data \in Matrices(Floats(CellVals), MaxPlotRows, NPlotBins),
             bin_size \in PlotBinSizes, avg_method \in AvgMethods :
             AvoPlot(data, bin_size, avg_method, NoStats)
    \/ /\ plot_out.fn = "none"
       /\ \E data \in Matrices(Floats({0, 1}), 1, NPlotBins),
             bin_size \in PlotBinSizes, avg_method \in AvgMethods, stats \in StatsArgs :
             AvoPlot(data, bin_size, avg_method, stats)
    \/ /\ plot_out.fn = "none"
       /\ \E avo_results \in SeriesLists, align_mean \in BOOLEAN :
             \E names \in NamesFor(avo_results) :
                 StdPlot(avo_results, MaxBinSize, names, align_mean)

SpecPlot == Init /\ [][NextPlot]_vars

(* Aggregates that are not finite *)

InfVals == {Fin(0), Fin(1), PosInf, NegInf}

InfCfgs ==
    [bin_size : {IntBin(1), EdgeBins(<<0, 1>>)},
     storage_size : {MaxOffset},
     window : {<<0, 1>>},
     horizon_window : {<<0, 0>>},
     horizon : {NoHorizon},
     calc_method : {"nanmean", "mean"},
     n_samples : {NSamples},
     t_step : {TStep}]

InitInf ==
    /\ InitMapVars /\ InitGridVars /\ InitPlotVars /\ InitOtherVars
    /\ cfg \in InfCfgs
    /\ params = <<>>
    /\ params_in = <<>>
    /\ last_batch = <<>>
    /\ processed = <<>>
    /\ status = "none"

NextInf ==
    \/ /\ status = "none" /\ plot_out.fn = "none"
       /\ \E g \in Gathers(InfVals, MaxTraces, {1}) : UpdateAvoParams(<<g>>, 1)
    \/ /\ status = "none" /\ plot_out.fn = "none"
       /\ cfg.calc_method = "nanmean"
       /\ \E data \in Matrices(InfVals, MaxPlotRows, NStdBins) :
             AvoPlot(data, IntBin(1), "mean", NoStats)

SpecInf == InitInf /\ [][NextInf]_vars

(* The calculators of seismic_metrics.py on a batch *)

MaxSembRows == 2     \* most rows of a semblance
MaxSembCols == 2     \* most columns of a semblance
PoolSize == 2        \* gathers of a batch handed to a calculator
SembVals == {0, 1, 2}

Semblances ==
    UNION {[1..r -> [1..c -> Floats(SembVals)]] : r \in 1..MaxSembRows, c \in 1..MaxSembCols}

\* batch.indices: the indices 1..n in any order
BatchIndices(n) == {f \in [1..n -> 1..n] : \A a, b \in 1..n : f[a] = f[b] => a = b}

StartTasks(n) == [i \in 1..n |-> NoTask]

\* calculate_minmax on a batch of one gather
InitMinmax ==
    /\ InitMapVars /\ InitGridVars /\ InitAvoVars /\ InitPlotVars
    /\ InitAppendVars /\ InitCellVars /\ InitHzVars
    /\ pool \in [calc : {"calculate_minmax"}, indices : BatchIndices(1),
                 src : [1..1 -> [semblance : Semblances]]]
    /\ dst = InitComponent(pool.calc, 1)
    /\ task = StartTasks(1)

NextMinmax ==
    \/ \E index \in 1..Len(pool.indices) : TaskRead(index)
    \/ \E index \in 1..Len(pool.indices) : TaskWrite(index)

SpecMinmax == InitMinmax /\ [][NextMinmax]_vars

\* the gathers of the batches the calculators run on as tasks of a pool
SemblanceGathers ==
    {[semblance |-> <<<<Fin(0), Fin(2)>>, <<Fin(1), Fin(1)>>>>],
     [semblance |-> <<<<Fin(1), Fin(1)>>, <<Fin(0), Fin(4)>>>>],
     [semblance |-> <<<<Fin(3), Fin(3)>>>>]}

PickingGathers ==
    {[picking |-> <<Fin(2), Fin(4)>>, offset |-> <<Fin(2), Fin(8)>>],
     [picking |-> <<Fin(1), Fin(2)>>, offset |-> <<Fin(3), Fin(6)>>],
     [picking |-> <<Fin(0), Fin(1)>>, offset |-> <<Fin(1), Fin(2)>>]}

GeometryGathers ==
    {[picking |-> <<Fin(1), Fin(2), Fin(4)>>, offset |-> <<Fin(0), Fin(3), Fin(5)>>,
      gx |-> <<Fin(0), Fin(3), Fin(3)>>, gy |-> <<Fin(0), Fin(0), Fin(4)>>,
      sx |-> <<Fin(0), Fin(0), Fin(0)>>, sy |-> <<Fin(0), Fin(0), Fin(0)>>,
      s_elev |-> <<Fin(0), Fin(0), Fin(0)>>, g_elev |-> <<Fin(0), Fin(0), Fin(0)>>],
     [picking |-> <<Fin(2), Fin(3)>>, offset |-> <<Fin(4), Fin(5)>>,
      gx |-> <<Fin(0), Fin(3)>>, gy |-> <<Fin(0), Fin(0)>>,
      sx |-> <<Fin(0), Fin(0)>>, sy |-> <<Fin(0), Fin(0)>>,
      s_elev |-> <<Fin(4), Fin(4)>>, g_elev |-> <<Fin(0), Fin(0)>>],
     [picking |-> <<Fin(1), Fin(1)>>, offset |-> <<Fin(3), Fin(3)>>,
      gx |-> <<Fin(3), Fin(3)>>, gy |-> <<Fin(0), Fin(0)>>,
      sx |-> <<Fin(0), Fin(0)>>, sy |-> <<Fin(0), Fin(0)>>,
      s_elev |-> <<Fin(0), Fin(0)>>, g_elev |-> <<Fin(0), Fin(0)>>]}

InitPool ==
    /\ InitMapVars /\ InitGridVars /\ InitAvoVars /\ InitPlotVars
    /\ InitAppendVars /\ InitCellVars /\ InitHzVars
    /\ \/ pool \in [calc : {"calculate_minmax", "calculate_std"},
                    indices : BatchIndices(PoolSize),
                    src : [1..PoolSize -> SemblanceGathers]]
       \/ pool \in [calc : {"velocity"}, indices : BatchIndices(PoolSize),
                    src : [1..PoolSize -> PickingGathers]]
       \/ pool \in [calc : {"linear_diff"}, indices : BatchIndices(PoolSize),
                    src : [1..PoolSize -> GeometryGathers]]
    /\ dst = InitComponent(pool.calc, PoolSize)
    /\ task = StartTasks(PoolSize)

\* the worker pool runs any task that has a step left
NextPool ==
    \/ \E index \in 1..Len(pool.indices) : TaskRead(index)
    \/ \E index \in 1..Len(pool.indices) : TaskWrite(index)
    \/ \E index \in 1..Len(pool.indices) : TaskWriteSecond(index)

SpecPool == InitPool /\ [][NextPool]_vars

(* load_horizon on a file *)

MaxLineLen == 5      \* most characters of a line

Chars == Digits \cup Letters \cup {".", " ", ":"}

Lines == SeqsUpTo(Chars, 0, MaxLineLen)

\* files of one line, and files of two lines, each blank, complete or short
HorizonFiles ==
    {<<l>> : l \in Lines}
    \cup [1..2 -> {<<>>, <<"1", " ", "2", " ", "1">>, <<"1", " ", "2">>}]

NextHorizon == hz_out.status = "none" /\ \E lines \in HorizonFiles : CallLoadHorizon(lines)

SpecHorizon == Init /\ [][NextHorizon]_vars

(* Merging of MetricsMaps *)

MaxMapLen == 4       \* longest _maps_list a merge may produce

AppendCoords == {<<0, 0>>, <<0, 1>>}
AppendVals == {10, 20}

\* the _maps_list of the MetricsMaps built from one or two coordinates
BuiltLists ==
    {ZipMaps(UniqueCoords(c), m) :
        c \in SeqsUpTo(AppendCoords, 1, 2), m \in SeqsUpTo(AppendVals, 1, 2)}

Objects == {"a", "b"}

InitAppend ==
    /\ InitMapVars /\ InitGridVars /\ InitAvoVars /\ InitPlotVars
    /\ InitCellVars /\ InitHzVars /\ InitPoolVars
    /\ maps \in [Objects -> BuiltLists]
    /\ last_append = [fn |-> "none"]

NextAppend == \E self \in Objects, metrics \in Objects : MetricsMapAppend(self, metrics, MaxMapLen)

SpecAppend == InitAppend /\ [][NextAppend]_vars

----------------------------------------------------------------------------
(* Claims about MetricsMap *)

RECURSIVE SumOver(_, _)
SumOver(f, S) ==
    IF S = {} THEN 0
    ELSE LET x == CHOOSE y \in S : TRUE IN f[x] + SumOver(f, S \ {x})

\* the indices at which a coordinate occurs for the first time
FirstOccurrences(c) == {i \in 1..Len(c) : \A j \in 1..(i - 1) : c[j] # c[i]}

\* C1: a MetricsMap built from coords and values of the same length has one
\* sample per distinct coordinate, in order of first occurrence, and each
\* sample carries the value supplied at the first occurrence of its coordinate.
C1_FirstOccurrenceValues ==
    (self_map.built /\ Len(arg_coords) = Len(arg_metrics)) =>
        LET first == FirstOccurrences(arg_coords)
        IN /\ Len(self_map.maps_list) = Cardinality(first)
           /\ \A k \in 1..Cardinality(first) :
                 self_map.maps_list[k] = <<arg_coords[Nth(first, k)][1],
                                           arg_coords[Nth(first, k)][2],
                                           arg_metrics[Nth(first, k)]>>

\* the cells of the grid that count sample k
CellsOf(k) ==
    {c \in (1..Len(metrics_map.map)) \X (1..Len(metrics_map.map[1])) :
        k \in CellMask(grid_in.coords_x, grid_in.coords_y,
                       GridRange(grid_in.coords_x, grid_in.bin_size),
                       GridRange(grid_in.coords_y, grid_in.bin_size),
                       grid_in.bin_size, c[2], c[1])}

\* C2: every sample is counted in exactly one cell of the grid, and the
\* per-cell sample counts add up to the number of samples.
C2_EverySampleInOneCell ==
    metrics_map.status = "ok" =>
        /\ \A k \in 1..Len(grid_in.coords_x) : Cardinality(CellsOf(k)) = 1
        /\ SumOver([c \in (1..Len(metrics_map.counts)) \X (1..Len(metrics_map.counts[1]))
                      |-> metrics_map.counts[c[1]][c[2]]],
                   (1..Len(metrics_map.counts)) \X (1..Len(metrics_map.counts[1])))
             = Len(grid_in.coords_x)

\* a grid was built in which one cell holds two samples and another none
C2_Witness ==
    /\ metrics_map.status = "ok"
    /\ Len(grid_in.coords_x) = 3
    /\ Len(metrics_map.counts) = 2
    /\ \E j \in 1..2, i \in 1..Len(metrics_map.counts[1]) : metrics_map.counts[j][i] = 2
    /\ \E j \in 1..2, i \in 1..Len(metrics_map.counts[1]) : metrics_map.counts[j][i] = 0

\* the samples with x in [min(x) + i*bin_size, min(x) + (i+1)*bin_size) and
\* y in [min(y) + j*bin_size, min(y) + (j+1)*bin_size), i and j counted from 0
InCell(i, j) ==
    LET x0 == Min(Range(grid_in.coords_x))
        y0 == Min(Range(grid_in.coords_y))
        b == grid_in.bin_size
    IN {k \in 1..Len(grid_in.coords_x) :
          /\ x0 + i * b <= grid_in.coords_x[k]
          /\ grid_in.coords_x[k] < x0 + (i + 1) * b
          /\ y0 + j * b <= grid_in.coords_y[k]
          /\ grid_in.coords_y[k] < y0 + (j + 1) * b}

\* C3: cell [j][i] of the grid is the mean of the values of exactly the
\* samples of that cell, and not-a-number if and only if the cell is empty.
C3_CellIsMeanOfItsSamples ==
    metrics_map.status = "ok" =>
        \A j \in 1..Len(metrics_map.map) : \A i \in 1..Len(metrics_map.map[j]) :
            LET S == InCell(i - 1, j - 1)
            IN /\ (S = {}) <=> IsNaN(metrics_map.map[j][i])
               /\ S # {} => metrics_map.map[j][i] =
                               Rat(SumOver(grid_in.metrics, S), Cardinality(S))

\* samples {(0,0): 10, (1,1): 30} with bin_size 1 gave the 2x2 grid of the spec
C3_Witness ==
    /\ grid_in = [coords_x |-> <<0, 1>>, coords_y |-> <<0, 1>>,
                  metrics |-> <<10, 30>>, bin_size |-> 1]
    /\ metrics_map.status = "ok"
    /\ metrics_map.map = << <<Fin(10), NaN>>, <<NaN, Fin(30)>> >>

----------------------------------------------------------------------------
(* Claims about update_avo_params *)

Perms(n) == {f \in [1..n -> 1..n] : \A a, b \in 1..n : f[a] = f[b] => a = b}

\* the traces of g in another order, offsets and amplitude rows together
Permuted(g, f) ==
    [g EXCEPT !.offset = [t \in 1..Len(g.offset) |-> g.offset[f[t]]],
              !.field = [t \in 1..Len(g.field) |-> g.field[f[t]]]]

\* the traces of g whose own offset lies in bin i
OwnTraces(g, c, i) ==
    LET step_list == StepList(Sort(g.offset), c.bin_size)
    IN {t \in 1..Len(g.offset) : g.offset[t] >= step_list[i] /\ g.offset[t] < step_list[i + 1]}

NumBins(g, c) == Len(StepList(Sort(g.offset), c.bin_size)) - 1

\* the amplitudes inside the window of the traces of T, trace by trace
WindowSamples(g, T, window) ==
    Flatten([k \in 1..Cardinality(T) |->
                Slice(g.field[Nth(T, k)], window[1], window[2] + 1)])

RECURSIVE SelectNonZero(_)
SelectNonZero(a) ==
    IF a = <<>> THEN <<>>
    ELSE LET r == SelectNonZero(SubSeq(a, 1, Len(a) - 1))
         IN IF IsZero(a[Len(a)]) THEN r ELSE Append(r, a[Len(a)])

\* C4: the traces need not be sorted by offset: every bin is aggregated from
\* the rows of the traces whose own offset lies in the bin, so the vector of
\* a gather is the same for every order of its traces.
C4_TraceOrderIrrelevant ==
    \A k \in 1..Len(params) :
        LET g == processed[k]
        IN /\ \A i \in 1..NumBins(g, cfg) :
                 OwnTraces(g, cfg, i) # {} =>
                     params[k][i] = NanToNum(Reduce(cfg.calc_method,
                         ZeroToNaN(WindowSamples(g, OwnTraces(g, cfg, i), cfg.window))))
           /\ \A f \in Perms(Len(g.offset)) :
                 OffsetBinVector(Permuted(g, f), cfg).storage = params[k]

\* C5: with an aggregator that ignores missing values, a bin without traces
\* holds 0, a bin whose traces are all zero inside the window holds 0, and a
\* bin with non-zero amplitudes inside the window holds the aggregate of
\* exactly its non-zero samples.
C5_ZeroIsMissing ==
    cfg.calc_method \in {"nanmean", "nansum"} =>
        \A k \in 1..Len(params) : \A i \in 1..NumBins(processed[k], cfg) :
            LET g == processed[k]
                T == OwnTraces(g, cfg, i)
                nz == SelectNonZero(WindowSamples(g, T, cfg.window))
            IN /\ T = {} => params[k][i] = Fin(0)
               /\ (T # {} /\ nz = <<>>) => params[k][i] = Fin(0)
               /\ nz # <<>> => params[k][i] =
                      (IF cfg.calc_method = "nanmean" THEN Mean(nz) ELSE FSum(nz))

\* the statement of C5 for the gathers whose traces are sorted by offset
ZeroIsMissingWhenSorted ==
    cfg.calc_method \in {"nanmean", "nansum"} =>
        \A k \in 1..Len(params) : \A i \in 1..NumBins(processed[k], cfg) :
            LET g == processed[k]
                T == OwnTraces(g, cfg, i)
                nz == SelectNonZero(WindowSamples(g, T, cfg.window))
            IN g.offset = Sort(g.offset) =>
                 /\ T = {} => params[k][i] = Fin(0)
                 /\ (T # {} /\ nz = <<>>) => params[k][i] = Fin(0)
                 /\ nz # <<>> => params[k][i] =
                        (IF cfg.calc_method = "nanmean" THEN Mean(nz) ELSE FSum(nz))

IsPrefix(p, q) == Len(p) <= Len(q) /\ SubSeq(q, 1, Len(p)) = p

\* C7: the matrix has one row per processed gather, in processing order;
\* a call keeps the rows it was given as a prefix of its result and adds one
\* row per gather of its batch; every row has length storage_size.
C7_AppendOnly ==
    /\ Len(params) = Len(processed)
    /\ \A k \in 1..Len(params) :
          /\ Len(params[k]) = cfg.storage_size
          /\ params[k] = OffsetBinVector(processed[k], cfg).storage
    /\ status = "ok" =>
          /\ IsPrefix(params_in, params)
          /\ Len(params) = Len(params_in) + Len(last_batch)
          /\ SubSeq(processed, Len(params_in) + 1, Len(processed)) = last_batch

\* a second call appended two different rows after the row of a first call
C7_Witness ==
    /\ status = "ok"
    /\ Len(params_in) = 1
    /\ Len(params) = 3
    /\ params[1] # params[2]
    /\ params[2] # params[3]

\* the gathers of the batch that have no entry in the horizon table
Missing(batch) ==
    {k \in 1..Len(batch) :
        \A e \in 1..Len(cfg.horizon.table) :
            cfg.horizon.table[e].il # batch[k].il \/ cfg.horizon.table[e].xl # batch[k].xl}

\* C8: with a horizon, a gather without an entry in the horizon table makes
\* the call fail: nothing is returned and the storage passed in is unchanged.
C8_HorizonMissFails ==
    (status # "none" /\ cfg.horizon.given /\ Missing(last_batch) # {}) =>
        /\ status = "IndexError"
        /\ params = params_in
        /\ Len(processed) = Len(params_in)

\* a call failed on its second gather, after a first gather that has an
\* entry, with rows of earlier calls in the storage and room for all bins
C8_Witness ==
    /\ status = "IndexError"
    /\ cfg.horizon.given
    /\ cfg.storage_size = StorageSize
    /\ Len(last_batch) = 2
    /\ Missing(last_batch) = {2}
    /\ Len(params_in) >= 1
    /\ params = params_in

StoredFor(x) ==
    IF IsNaN(x) THEN Fin(0) ELSE IF x = PosInf THEN Fin(FloatMax) ELSE Fin(-FloatMax)

----------------------------------------------------------------------------
(* Claims about avo_plot and std_plot *)

\* the cells of bin b (counted from 1) of the data of avo_plot
BinCells(b) == [r \in 1..Len(plot_in.data) |-> plot_in.data[r][b]]

\* the aggregate of bin b over the gather rows, 0 cells treated as missing
BinAverage(b) ==
    LET nz == SelectNonZero(BinCells(b))
    IN IF plot_in.avg_method = "mean"
       THEN (IF nz = <<>> THEN Fin(0) ELSE Mean(nz))
       ELSE FSum(nz)

KeptBins == {b \in 1..Len(plot_in.data[1]) : BinAverage(b) # Fin(0)}

\* C9: avo_plot keeps exactly the bins whose aggregate, with 0 cells treated
\* as missing, is not 0, each with that aggregate, its own cells and the
\* offset of its original index; bins are not renumbered.
C9_KeptBinsKeepTheirIndex ==
    plot_out.fn = "avo_plot" =>
        /\ plot_out.status = "TypeError" => KeptBins = {}
        /\ plot_out.status = "ok" =>
              /\ Len(plot_out.nonzeros) = Cardinality(KeptBins)
              /\ \A k \in 1..Len(plot_out.nonzeros) :
                    LET b == Nth(KeptBins, k)
                    IN /\ plot_out.nonzeros[k] = b - 1
                       /\ plot_out.avg_value[k] = BinAverage(b)
                       /\ plot_out.transposed_data[k] = BinCells(b)
                       /\ plot_out.bin_size[k] =
                             (IF plot_in.bin_size.kind = "int"
                              THEN (b - 1) * plot_in.bin_size.size ELSE b - 1)

\* the middle bin was dropped, the last bin kept its offset 2 * bin_size, and
\* a 0 cell of the first bin did not enter its mean
C9_Witness ==
    /\ plot_out.fn = "avo_plot"
    /\ plot_out.status = "ok"
    /\ plot_in.avg_method = "mean"
    /\ plot_in.bin_size.kind = "int"
    /\ Len(plot_in.data) = 2
    /\ BinCells(1) = <<Fin(0), Fin(1)>>
    /\ BinCells(2) = <<Fin(1), Fin(-1)>>
    /\ BinCells(3) = <<Fin(1), Fin(1)>>
    /\ plot_out.nonzeros[1] = 0 /\ plot_out.nonzeros[2] = 2
    /\ plot_out.avg_value[1] = Fin(1)
    /\ plot_out.bin_size[1] = 0 /\ plot_out.bin_size[2] = 2 * MaxBinSize

\* the name std_plot gives to series s
SeriesName(s) ==
    IF plot_in.names = <<>> THEN ToString(s - 1) ELSE plot_in.names[s]

\* the cells (series, gather, bin) of the AVOs handed to std_plot
AllCells ==
    {c \in (1..Len(plot_in.avo_results)) \X (1..MaxPlotRows) \X (1..NStdBins) :
        c[2] <= Len(plot_in.avo_results[c[1]])}

CellValue(c) == plot_in.avo_results[c[1]][c[2]][c[3]]

\* the sum of bin b of series s over its gathers
BinSum(s, b) ==
    FSum([r \in 1..Len(plot_in.avo_results[s]) |-> plot_in.avo_results[s][r][b]])

\* the rows of the table that are the triple (val, indices, name)
RowsEqual(t) == {k \in 1..Len(plot_out.resulted_df) : plot_out.resulted_df[k] = t}

Triple(c) ==
    [val |-> CellValue(c), indices |-> (c[3] - 1) * plot_in.bin_size,
     name |-> SeriesName(c[1])]

\* C10 as claimed: the table of std_plot has exactly one triple
\* (value, bin_index * bin_size, series_name) for every non-zero cell of every
\* series and none for a zero cell.
C10_OneTriplePerNonZeroCell ==
    (plot_out.fn = "std_plot" /\ ~plot_in.align_mean) =>
        LET nonzero == {c \in AllCells : ~IsZero(CellValue(c))}
        IN /\ Len(plot_out.resulted_df) = Cardinality(nonzero)
           /\ \A c \in nonzero :
                 Cardinality(RowsEqual(Triple(c))) =
                     Cardinality({d \in nonzero : Triple(d) = Triple(c)})

\* C10 as amended: the table has exactly one triple for every non-zero cell
\* of every bin whose cells do not sum to 0 over the gathers of its series,
\* and no other triple: a bin whose non-zero cells cancel is left out.
C10_OneTriplePerNonZeroCellOfNonZeroSumBin ==
    (plot_out.fn = "std_plot" /\ ~plot_in.align_mean) =>
        LET listed == {c \in AllCells :
                          ~IsZero(CellValue(c)) /\ ~IsZero(BinSum(c[1], c[3]))}
        IN /\ Len(plot_out.resulted_df) = Cardinality(listed)
           /\ \A c \in listed :
                 Cardinality(RowsEqual(Triple(c))) =
                     Cardinality({d \in listed : Triple(d) = Triple(c)})

\* a series with a bin of cancelling cells (left out) and a bin with one zero
\* and one non-zero cell (one triple), next to a second series
C10_Witness ==
    /\ plot_out.fn = "std_plot"
    /\ ~plot_in.align_mean
    /\ Len(plot_in.avo_results) = 2
    /\ Len(plot_in.avo_results[1]) = 2
    /\ plot_in.avo_results[1][1][1] = Fin(1) /\ plot_in.avo_results[1][2][1] = Fin(-1)
    /\ plot_in.avo_results[1][1][2] = Fin(0) /\ plot_in.avo_results[1][2][2] = Fin(1)
    /\ plot_in.avo_results[2][1][1] = Fin(1) /\ plot_in.avo_results[2][1][2] = Fin(1)
    /\ RowsEqual([val |-> Fin(1), indices |-> MaxBinSize, name |-> "0"]) # {}
    /\ \A k \in 1..Len(plot_out.resulted_df) :
          plot_out.resulted_df[k].name = "0" => plot_out.resulted_df[k].indices # 0

----------------------------------------------------------------------------
(* std_plot: alignment of the means *)

\* the names std_plot gives the series of the last call
SeriesNames ==
    IF plot_in.names = <<>> THEN DefaultNames(Len(plot_in.avo_results)) ELSE plot_in.names

\* the long table of the last std_plot call before the alignment (line 376)
Unaligned == AllSeriesRows(plot_in.avo_results, SeriesNames, plot_in.bin_size)

DistinctNames ==
    \A i, j \in 1..Len(SeriesNames) : i # j => SeriesNames[i] # SeriesNames[j]

\* C11: with align_mean and distinct series names std_plot keeps every row's
\* series and offset, gives every series the mean of all values of the
\* unaligned table, keeps the differences of the values inside a series (one
\* constant is added per series) and keeps the mean of the whole table;
\* without align_mean the table is the unaligned one.
C11_AlignedSeriesShareTheGlobalMean ==
    plot_out.fn = "std_plot" =>
        LET before == Unaligned
            after == plot_out.resulted_df
        IN /\ Len(after) = Len(before)
           /\ ~plot_in.align_mean => after = before
           /\ (plot_in.align_mean /\ DistinctNames) =>
                 /\ \A k \in 1..Len(after) :
                       /\ after[k].name = before[k].name
                       /\ after[k].indices = before[k].indices
                       /\ Mean(Vals(SelectName(after, after[k].name))) = Mean(Vals(before))
                 /\ \A k, l \in 1..Len(after) :
                       after[k].name = after[l].name =>
                           FSub(after[k].val, after[l].val)
                               = FSub(before[k].val, before[l].val)
                 /\ Mean(Vals(after)) = Mean(Vals(before))

\* two series of different means, one of them with two different values, are
\* aligned: the values moved
C11_Witness ==
    /\ plot_out.fn = "std_plot"
    /\ plot_in.align_mean
    /\ DistinctNames
    /\ Len(plot_in.avo_results) = 2
    /\ \E k, l \in 1..Len(Unaligned) :
          /\ Unaligned[k].name = Unaligned[l].name
          /\ Unaligned[k].val # Unaligned[l].val
    /\ \E k, l \in 1..Len(Unaligned) :
          /\ Unaligned[k].name # Unaligned[l].name
          /\ Mean(Vals(SelectName(Unaligned, Unaligned[k].name)))
                # Mean(Vals(SelectName(Unaligned, Unaligned[l].name)))
    /\ \A k \in 1..Len(Unaligned) : plot_out.resulted_df[k].val # Unaligned[k].val

----------------------------------------------------------------------------
(* Claims about the calculators *)

\* the semblance of the gather at position p and the value stored for it
SemblanceAt(p) == pool.src[p].semblance

ColumnSpread(m, c) ==
    FSub(FMax([r \in 1..Len(m) |-> m[r][c]]), FMin([r \in 1..Len(m) |-> m[r][c]]))

RowSpread(m, r) == FSub(FMax(m[r]), FMin(m[r]))

MinmaxStored(p) == pool.calc = "calculate_minmax" /\ dst[1][p] # None

\* C12 as claimed: the value calculate_minmax stores for a semblance is the
\* largest, over the columns, of (column maximum - column minimum), the
\* maximum and minimum of a column being taken over the rows.
C12_LargestColumnSpread ==
    \A p \in 1..Len(dst[1]) :
        MinmaxStored(p) =>
            /\ \A c \in 1..Len(SemblanceAt(p)[1]) :
                  ~FLess(dst[1][p], ColumnSpread(SemblanceAt(p), c))
            /\ \E c \in 1..Len(SemblanceAt(p)[1]) :
                  dst[1][p] = ColumnSpread(SemblanceAt(p), c)

\* C12 as amended: the value calculate_minmax stores for a semblance is the
\* largest, over the rows, of (row maximum - row minimum), the maximum and
\* minimum of a row being taken over the columns (axis=1).
C12_LargestRowSpread ==
    \A p \in 1..Len(dst[1]) :
        MinmaxStored(p) =>
            /\ \A r \in 1..Len(SemblanceAt(p)) :
                  ~FLess(dst[1][p], RowSpread(SemblanceAt(p), r))
            /\ \E r \in 1..Len(SemblanceAt(p)) :
                  dst[1][p] = RowSpread(SemblanceAt(p), r)

\* a value is stored for a semblance with constant columns and varying rows
C12_Witness ==
    /\ MinmaxStored(1)
    /\ Len(SemblanceAt(1)) = 2
    /\ SemblanceAt(1)[1] = SemblanceAt(1)[2]
    /\ dst[1][1] = Fin(2)

\* the components after the tasks of the given indices have run one by one
RECURSIVE RunTasks(_, _)
RunTasks(components, indices) ==
    IF indices = <<>> THEN components
    ELSE LET c == RunTasks(components, SubSeq(indices, 1, Len(indices) - 1))
             pos == GetPos(indices[Len(indices)])
             val == Calculate(pool.calc, pool.src[pos])
             first == SetSlot(c, 1, pos, val[1])
         IN IF Len(val) = 2 THEN SetSlot(first, 2, pos, val[2]) ELSE first

SequentialResult == RunTasks(InitComponent(pool.calc, Len(pool.indices)), pool.indices)

\* a step of the task of one index: it reads the src slot of its own position,
\* leaves every dst slot of another position as it was, and when it is the
\* last step of the last task the dst components are those of a sequential run
OwnSlotsOnly ==
    /\ \A i \in 1..Len(task) :
          task'[i] # task[i] =>
              /\ task'[i].pc = "read" => task'[i].local = pool.src[GetPos(i)]
              /\ \A a \in 1..Len(dst) : \A p \in 1..Len(dst[a]) :
                    p # GetPos(i) => dst'[a][p] = dst[a][p]
    /\ (\A i \in 1..Len(task) : task'[i].pc = "done") => dst' = SequentialResult

\* C16: whatever the interleaving of the tasks of calculate_minmax,
\* calculate_std, velocity and linear_diff, a task writes only the dst slot(s)
\* of its own position, computes from the src slot of its own position, and
\* the dst components after the last task equal those of a sequential run.
C16_TasksWriteOwnSlots == [][OwnSlotsOnly]_vars

\* the task of the last index has finished while the task of the first index
\* has read and not yet stored; the two store different values
C16_Witness ==
    /\ pool.calc # "none"
    /\ Len(pool.indices) >= 2
    /\ task[pool.indices[Len(pool.indices)]].pc = "done"
    /\ task[pool.indices[1]].pc = "read"
    /\ dst[1][1] = None
    /\ Calculate(pool.calc, pool.src[1])[1] # Calculate(pool.calc, pool.src[Len(pool.indices)])[1]

----------------------------------------------------------------------------
(* Claims about load_horizon *)

\* the lines of the file that are not blank after cleaning and have fewer
\* than three tokens
ShortLines ==
    {k \in 1..Len(hz_file) :
        Clean(hz_file[k]) # <<>> /\ Len(Split(Clean(hz_file[k]))) < 3}

\* C13: load_horizon fails on a file with a non-blank line of fewer than
\* three tokens after cleaning: no table is returned for such a file.
C13_ShortLineRejected ==
    (hz_out.status # "none" /\ ShortLines # {}) =>
        (hz_out.status # "ok" /\ hz_out.horizon_val = <<>>)

----------------------------------------------------------------------------
(* Claims about the construction and merging of MetricsMaps *)

\* C14: a MetricsMap is not built from a coordinate sequence and a value
\* sequence of different lengths: the construction fails and leaves no map.
C14_LengthMismatchFails ==
    Len(arg_coords) # Len(arg_metrics) => ~self_map.built


\* C15: after a.append(b) the list of a is its list before the call followed
\* by the samples of b in their order, nothing left out or merged, and the
\* list of every other MetricsMap, b included, is the one before the call.
C15_AppendConcatenates ==
    last_append.fn = "append" =>
        LET a == last_append.self
            b == last_append.metrics
            before == last_append.before
        IN /\ Len(maps[a]) = Len(before[a]) + Len(before[b])
           /\ \A k \in 1..Len(before[a]) : maps[a][k] = before[a][k]
           /\ \A k \in 1..Len(before[b]) : maps[a][Len(before[a]) + k] = before[b][k]
           /\ \A o \in Objects \ {a} : maps[o] = before[o]

\* b was appended to a after an earlier append, and a sample of b is at a
\* coordinate a held already: the coordinate occurs twice in a
C15_Witness ==
    /\ last_append.fn = "append"
    /\ last_append.self # last_append.metrics
    /\ Len(last_append.before[last_append.self]) > 2
    /\ \E k, l \in 1..Len(maps[last_append.self]) :
          /\ k <= Len(last_append.before[last_append.self])
          /\ l > Len(last_append.before[last_append.self])
          /\ maps[last_append.self][k][1] = maps[last_append.self][l][1]
          /\ maps[last_append.self][k][2] = maps[last_append.self][l][2]
          /\ maps[last_append.self][k][3] # maps[last_append.self][l][3]

----------------------------------------------------------------------------
(* Claims about the parallel loop of construct_metrics_map *)

\* the grid of a sequential run over the samples of grid_in
SequentialGrid ==
    ConstructMetricsMap(grid_in.coords_x, grid_in.coords_y, grid_in.metrics,
                        grid_in.bin_size).map

\* C17: whatever the order in which the loop iterations of
\* construct_metrics_map run, the cell of an iteration that has run holds the
\* value of the sequential grid and the cell of an iteration that has not run
\* is still not-a-number: an iteration writes only metrics_map[j, i], and the
\* finished grid is the grid of a sequential run.
C17_CellsIndependent ==
    metrics_map.status \in {"running", "ok"} =>
        /\ \A j \in 1..Len(metrics_map.map) : \A i \in 1..Len(metrics_map.map[j]) :
              metrics_map.map[j][i] =
                  IF <<i, j>> \in cells_done THEN SequentialGrid[j][i] ELSE NaN
        /\ metrics_map.status = "ok" => metrics_map.map = SequentialGrid

\* the iteration of the last cell of a grid of two rows has run before the
\* iteration of the first cell, and stored a mean
C17_Witness ==
    /\ metrics_map.status = "running"
    /\ Len(metrics_map.map) >= 2
    /\ <<1, 1>> \notin cells_done
    /\ <<Len(metrics_map.map[1]), Len(metrics_map.map)>> \in cells_done
    /\ ~IsNaN(metrics_map.map[Len(metrics_map.map)][Len(metrics_map.map[1])])
    /\ ~IsNaN(SequentialGrid[1][1])

----------------------------------------------------------------------------
(* Claims about the order of the gathers and the offset bins *)

\* C18: the row of a gather is the row a call on that gather alone returns,
\* and the gathers processed so far, handed to one call in any other order,
\* give the same rows in that order: no row depends on the gathers processed
\* before it or on the split of the gathers over the calls.
C18_RowsIndependentOfOrder ==
    /\ \A k \in 1..Len(params) :
          LET alone == AppendRows(<<>>, <<processed[k]>>, cfg)
          IN alone.status = "ok" /\ alone.params = <<params[k]>>
    /\ \A f \in Perms(Len(processed)) :
          LET reordered == AppendRows(<<>>, [k \in 1..Len(processed) |-> processed[f[k]]], cfg)
          IN /\ reordered.status = "ok"
             /\ reordered.params = [k \in 1..Len(params) |-> params[f[k]]]

\* three gathers processed in two calls with a horizon; two of them have the
\* same traces and different horizon windows, and their rows differ
C18_Witness ==
    /\ status = "ok"
    /\ cfg.horizon.given
    /\ Len(params_in) = 1
    /\ Len(params) = 3
    /\ \E k, l \in 1..Len(params) :
          /\ processed[k].field = processed[l].field
          /\ GatherWindow(processed[k], cfg).window # GatherWindow(processed[l], cfg).window
          /\ params[k] # params[l]

\* the bins of the gather whose interval [bin_start, bin_end) holds offset x
BinsHolding(g, c, x) ==
    LET step_list == StepList(Sort(g.offset), c.bin_size)
    IN {i \in 1..NumBins(g, c) : x >= step_list[i] /\ x < step_list[i + 1]}

\* C19: with an integer bin_size and a storage that has room for every bin,
\* the offset of every trace of the gather, the largest offset included, lies
\* in exactly one bin of the gather.
C19_EveryTraceInOneBin ==
    (status = "ok" /\ cfg.bin_size.kind = "int") =>
        \A t \in 1..Len(last_batch[1].offset) :
            Cardinality(BinsHolding(last_batch[1], cfg, last_batch[1].offset[t])) = 1

----------------------------------------------------------------------------
(* Claims about the arguments of avo_plot *)

ValidStat(stat) == stat \in {"std", "corr", "callable"}

\* C20: avo_plot fails when avg_method is neither 'mean' nor a callable, and
\* it fails as well when an entry of stats is neither 'std' nor 'corr' nor a
\* callable: no result is returned with that entry left out.
C20_InvalidStatFails ==
    plot_out.fn = "avo_plot" =>
        /\ plot_in.avg_method \notin {"mean"} \cup Callables => plot_out.status = "ValueError"
        /\ (\E k \in 1..Len(plot_in.stats.items) : ~ValidStat(plot_in.stats.items[k]))
              => plot_out.status # "ok"

====
